---- MODULE Spec2Model ----
(***************************************************************************)
(* The Flask service of src/datadog-setup/app.py: a process-wide list      *)
(* (data_store) served by several worker threads of one process.  Each     *)
(* handler is cut into steps at the places where the interpreter can       *)
(* switch threads: between two reads of the global data_store, between     *)
(* the load of the global and the call of list.append, between two turns   *)
(* of the generator in get_data_by_id.  The source takes no lock.          *)
(*                                                                         *)
(* A list is an object with an identity: heap maps a list address to its   *)
(* content and data_store holds an address.  clear_data rebinds the global *)
(* to a new list (line 175); a thread that loaded the old address still    *)
(* reads or appends to the old list.                                       *)
(***************************************************************************)
EXTENDS Integers, Sequences, FiniteSets, TLC

(* ------------------------------ bounds -------------------------------- *)
NumThreads == 2
MaxIds == 2
MaxDeletes == 1

Threads == 1..NumThreads
ListAddrs == 0..MaxDeletes
ItemIds == 1..(MaxIds + 1)
NoRef == -1

(* --------------------------- JSON values ------------------------------ *)
(* A decoded JSON value: its type and its content as a sequence of         *)
(* numbers (a bool as 0/1, a string as its character codes, an array as    *)
(* its elements, an object as its keys and values in turn).                *)
JNull == [t |-> "null", v |-> <<>>]
JBool(b) == [t |-> "bool", v |-> <<IF b THEN 1 ELSE 0>>]
JNum(n) == [t |-> "num", v |-> <<n>>]
JStr(s) == [t |-> "str", v |-> s]
JArr(a) == [t |-> "arr", v |-> a]
JObj(kv) == [t |-> "obj", v |-> kv]

(* The values the clients send: one false and one true value of the types  *)
(* Python tests by value, the empty value of the types it tests by length, *)
(* and a non-empty object.                                                 *)
JsonValues ==
    { JNull, JBool(FALSE), JBool(TRUE), JNum(0), JNum(1),
      JStr(<<>>), JArr(<<>>), JObj(<<>>), JObj(<<110, 1>>) }

(* Python's truth value of a decoded JSON value (line 89, `not             *)
(* request_data`): None, False, 0 and every empty str, list and dict are   *)
(* false.                                                                  *)
Truthy(x) ==
    CASE x.t = "null" -> FALSE
      [] x.t = "bool" -> x.v[1] = 1
      [] x.t = "num" -> x.v[1] # 0
      [] OTHER -> Len(x.v) > 0

(* A request body: no bytes at all, bytes that are not JSON, or bytes that *)
(* decode to a JSON value.                                                 *)
AbsentBody == [wf |-> "absent", val |-> JNull]
MalformedBody == [wf |-> "malformed", val |-> JNull]
JsonBody(x) == [wf |-> "json", val |-> x]
Bodies == {AbsentBody, MalformedBody} \cup {JsonBody(x) : x \in JsonValues}
(* The bodies sent under another Content-Type than application/json.      *)
OtherBodies == {AbsentBody, MalformedBody, JsonBody(JObj(<<110, 1>>))}

(* request.get_json() (line 87): the decoded value, or a BadRequest raised *)
(* by the JSON loader when the bytes do not decode (an empty byte string   *)
(* does not).                                                              *)
get_json_raises(body) == body.wf # "json"
get_json(body) == body.val

(* ------------------------------ records ------------------------------- *)
RemoteAddr == "10.0.0.1"
Now == "now"

NoItem == [id |-> 0, data |-> JNull, created_at |-> "", created_by |-> ""]

NoReq == [kind |-> "none", is_json |-> FALSE, body |-> AbsentBody, item_id |-> 0]
Req(kind) == [NoReq EXCEPT !.kind = kind]
PostReq(j, b) == [NoReq EXCEPT !.kind = "create_data", !.is_json = j, !.body = b]
ByIdReq(i) == [NoReq EXCEPT !.kind = "get_data_by_id", !.item_id = i]

NoLoc == [ref |-> NoRef, new_item |-> NoItem, n |-> 0, idx |-> 0]

(* A response: the status and the fields of the JSON envelope that the     *)
(* handlers fill (count stands for count, total_items and the number in    *)
(* clear_data's message).                                                  *)
NoResp ==
    [status |-> 0, success |-> FALSE, error |-> "", status_text |-> "",
     item |-> NoItem, data |-> <<>>, count |-> 0, timestamp |-> FALSE]

NoObs ==
    [alone |-> FALSE, sawDel |-> FALSE, follows |-> FALSE, wasLive |-> FALSE,
     added |-> FALSE, stored |-> 0]

NoOut == [thread |-> 0, req |-> NoReq, resp |-> NoResp, obs |-> NoObs, removed |-> 0]

VARIABLES
    heap,        \* list address -> the list's content (a sequence of items)
    data_store,  \* the global: the address of the current list
    assigned,    \* every id uuid4 has produced, in order
    pc,          \* each thread's position
    req,         \* each thread's request
    loc,         \* each thread's locals
    out,         \* the response sent in the last step (NoOut: none)
    \* history of what the clients have observed
    returned,    \* ids of the 201 responses, in the order of the responses
    live,        \* [id, data] of the 201 responses since the last rebinding
    clean,       \* the POSTs since the store was last emptied ran one at a time
    afterDelete, \* the last request to arrive was a DELETE that ran alone
    reported,    \* sum of the counts the DELETE responses reported
    obs          \* per request in flight: what overlapped it

vars ==
    <<heap, data_store, assigned, pc, req, loc, out,
      returned, live, clean, afterDelete, reported, obs>>


(* ------------------------------ helpers ------------------------------- *)
Range(s) == {s[i] : i \in 1..Len(s)}
Ids(s) == [i \in 1..Len(s) |-> s[i].id]
NoDup(s) == \A i, j \in 1..Len(s) : s[i] = s[j] => i = j

InFlight(t) == pc[t] # "idle"

(* The threads inside create_data (past its validation) or clear_data.     *)
Mutator(u) == pc[u] \in {"cd_append", "cd_respond", "cl_assign"}

(* uuid.uuid4() (line 97): a value that no earlier call produced.  The     *)
(* 122 random bits are taken as collision-free; the ids are opaque, so the *)
(* least unused number stands for the fresh value.                         *)
uuid4_fixed(log) == 1
uuid4(log) == CHOOSE i \in 1..(Len(log) + 1) : i \notin Range(log)

(* list.append (line 104): one bytecode call, atomic under the GIL.        *)
ListInsertFront(s, x) == <<x>> \o s
ListOverwrite(s, x) == <<x>>
ListAppend(s, x) == Append(s, x)

(* len() of a list (lines 59, 64, 112, 160, 174).                          *)
len(s) == Len(s)

(* The dict of lines 96-101.                                               *)
NewItemNoData(id, data) ==
    [id |-> id, data |-> JNull, created_at |-> Now, created_by |-> RemoteAddr]
NewItem(id, data) ==
    [id |-> id, data |-> data, created_at |-> Now, created_by |-> RemoteAddr]

(* The test of the generator of line 135.                                  *)
AnyItem(item, item_id) == TRUE
Matches(item, item_id) == item.id = item_id

(* What reading a list leaves of it: the generator of line 135 and the     *)
(* serialisation of jsonify (line 61) iterate and change nothing.          *)
IteratedPop(s) == IF Len(s) > 0 THEN Tail(s) ELSE s
Iterated(s) == s

(* The list iterator under the generator of line 135 moves on by one.      *)
SameIndex(i) == i
NextIndex(i) == i + 1

(* The list object that `data_store = []` (line 175) binds.                *)
KeepList(old) == old
FreshList(old) == <<>>

(* Reference counting: a list that neither the global nor a local of a     *)
(* running handler refers to is freed.                                     *)
Collect(h, ds, l) ==
    [a \in ListAddrs |->
        IF a = ds \/ (\E t \in Threads : l[t].ref = a) THEN h[a] ELSE <<>>]

(* --------------------------- the observer ----------------------------- *)
(* What the request of kind k with path id i, arriving at thread t, finds. *)
ArriveObs(t, k, i) ==
    [alone |-> \A u \in Threads \ {t} : ~Mutator(u),
     sawDel |-> FALSE,
     follows |-> afterDelete /\ k = "get_data",
     wasLive |-> k = "get_data_by_id" /\ (\E r \in Range(live) : r.id = i),
     added |-> FALSE,
     stored |-> 0]

(* A handler that answers in its first step.                               *)
AnswerAtOnce(t, r, resp) ==
    /\ pc[t] = "idle"
    /\ out' = [thread |-> t, req |-> r, resp |-> resp,
               obs |-> ArriveObs(t, r.kind, r.item_id), removed |-> 0]
    /\ afterDelete' = FALSE
    /\ UNCHANGED <<heap, data_store, assigned, pc, req, loc,
                   returned, live, clean, reported, obs>>

(* A read-only handler that starts and goes on at position p.              *)
BeginRead(t, r, p, l) ==
    /\ pc[t] = "idle"
    /\ pc' = [pc EXCEPT ![t] = p]
    /\ req' = [req EXCEPT ![t] = r]
    /\ loc' = [loc EXCEPT ![t] = l]
    /\ obs' = [obs EXCEPT ![t] = ArriveObs(t, r.kind, r.item_id)]
    /\ heap' = Collect(heap, data_store, loc')
    /\ out' = NoOut
    /\ afterDelete' = FALSE
    /\ UNCHANGED <<data_store, assigned, returned, live, clean, reported>>

(* A handler that changes the store starts: the requests in flight are no  *)
(* longer alone.                                                           *)
BeginWrite(t, r, p, l) ==
    /\ pc[t] = "idle"
    /\ pc' = [pc EXCEPT ![t] = p]
    /\ req' = [req EXCEPT ![t] = r]
    /\ loc' = [loc EXCEPT ![t] = l]
    /\ obs' = [u \in Threads |->
                 IF u = t THEN ArriveObs(t, r.kind, r.item_id)
                 ELSE IF InFlight(u) THEN [obs[u] EXCEPT !.alone = FALSE]
                 ELSE obs[u]]
    /\ heap' = Collect(heap, data_store, loc')
    /\ out' = NoOut
    /\ afterDelete' = FALSE
    /\ UNCHANGED <<data_store, returned, live, clean, reported>>

(* A step inside a handler, to position p with locals l.                   *)
Step(t, p, l) ==
    /\ pc' = [pc EXCEPT ![t] = p]
    /\ loc' = [loc EXCEPT ![t] = l]
    /\ out' = NoOut
    /\ UNCHANGED <<data_store, assigned, req, returned, live, clean,
                   afterDelete, reported, obs>>

(* The handler of thread t returns resp: its locals die.                   *)
Return(t, resp, removed) ==
    /\ pc' = [pc EXCEPT ![t] = "idle"]
    /\ req' = [req EXCEPT ![t] = NoReq]
    /\ loc' = [loc EXCEPT ![t] = NoLoc]
    /\ out' = [thread |-> t, req |-> req[t], resp |-> resp,
               obs |-> obs[t], removed |-> removed]


(* --------------------------- responses -------------------------------- *)
Ok(status) == [NoResp EXCEPT !.status = status, !.success = TRUE]
Err(status, msg) == [NoResp EXCEPT !.status = status, !.error = msg]

Init ==
    /\ heap = [a \in ListAddrs |-> <<>>]
    /\ data_store = 0
    /\ assigned = <<>>
    /\ pc = [t \in Threads |-> "idle"]
    /\ req = [t \in Threads |-> NoReq]
    /\ loc = [t \in Threads |-> NoLoc]
    /\ out = NoOut
    /\ returned = <<>>
    /\ live = <<>>
    /\ clean = TRUE
    /\ afterDelete = FALSE
    /\ reported = 0
    /\ obs = [t \in Threads |-> NoObs]

(* ------------------- GET /health, GET /, unmatched paths -------------- *)
(* lines 30-35: the body of the health response, built from literals and   *)
(* the clock                                                               *)
HealthBodyByStore ==
    [Ok(200) EXCEPT !.success = FALSE, !.timestamp = TRUE,
                    !.status_text = IF len(heap[data_store]) = 0 THEN "healthy"
                                    ELSE "busy"]
HealthBody ==
    [Ok(200) EXCEPT !.success = FALSE, !.status_text = "healthy",
                    !.timestamp = TRUE]

(* lines 26-35 *)
health_check(t) ==
    AnswerAtOnce(t, Req("health_check"), HealthBody)

(* lines 37-54 *)
root(t) ==
    AnswerAtOnce(t, Req("root"),
        [Ok(200) EXCEPT !.success = FALSE, !.timestamp = TRUE])

(* lines 186-193 *)
not_found(t) ==
    AnswerAtOnce(t, Req("not_found"), Err(404, "Endpoint not found"))

(* ---------------------------- GET /api/status ------------------------- *)
(* lines 149-168: one read of the global and its length *)
get_status(t) ==
    AnswerAtOnce(t, Req("get_status"),
        [Ok(200) EXCEPT !.success = FALSE, !.status_text = "running",
                        !.count = len(heap[data_store])])

(* ----------------------------- GET /api/data -------------------------- *)
(* lines 59-63: the request arrives (the length read for the log is       *)
(* dropped) and 'data': data_store takes the reference to the current list *)
get_data(t) ==
    BeginRead(t, Req("get_data"), "gd_count", [NoLoc EXCEPT !.ref = data_store])

(* line 64: 'count': len(data_store), the global read again *)
get_data_count(t) ==
    /\ pc[t] = "gd_count"
    /\ Step(t, "gd_jsonify", [loc[t] EXCEPT !.n = len(heap[data_store])])
    /\ heap' = heap

(* lines 61-74: jsonify serialises the list the dict refers to *)
get_data_jsonify(t) ==
    /\ pc[t] = "gd_jsonify"
    /\ Return(t, [Ok(200) EXCEPT !.data = heap[loc[t].ref], !.count = loc[t].n,
                                 !.timestamp = TRUE], 0)
    /\ obs' = [obs EXCEPT ![t] = NoObs]
    /\ heap' = Collect([heap EXCEPT ![loc[t].ref] = Iterated(@)],
                       data_store, loc')
    /\ UNCHANGED <<data_store, assigned, returned, live, clean, afterDelete,
                   reported>>

(* ---------------------------- POST /api/data -------------------------- *)
(* lines 81-85 *)
create_data_not_json(t) ==
    \E b \in OtherBodies :
        AnswerAtOnce(t, PostReq(FALSE, b),
            Err(400, "Content-Type must be application/json"))

(* lines 87 and 121-127: get_json raises, `except Exception` answers 500 *)
create_data_raises(t) ==
    \E b \in Bodies :
        /\ get_json_raises(b)
        /\ AnswerAtOnce(t, PostReq(TRUE, b), Err(500, "Internal server error"))

(* lines 87-93 *)
create_data_empty(t) ==
    \E b \in Bodies :
        /\ ~get_json_raises(b)
        /\ ~Truthy(get_json(b))
        /\ AnswerAtOnce(t, PostReq(TRUE, b), Err(400, "Request body cannot be empty"))

(* lines 87-104: the body passes, new_item is built and the global        *)
(* data_store is loaded for the call of append                             *)
create_data(t) ==
    \E b \in Bodies :
        /\ ~get_json_raises(b)
        /\ Truthy(get_json(b))
        /\ Len(assigned) < MaxIds
        /\ LET id == uuid4(assigned) IN
            /\ BeginWrite(t, PostReq(TRUE, b), "cd_append",
                   [NoLoc EXCEPT !.new_item = NewItem(id, get_json(b)),
                                 !.ref = data_store])
            /\ assigned' = Append(assigned, id)

(* line 104: append on the list that was loaded *)
create_data_append(t) ==
    /\ pc[t] = "cd_append"
    /\ pc' = [pc EXCEPT ![t] = "cd_respond"]
    /\ loc' = [loc EXCEPT ![t].ref = NoRef]
    /\ heap' = Collect([heap EXCEPT ![loc[t].ref] =
                            ListAppend(@, loc[t].new_item)],
                       data_store, loc')
    /\ obs' = [obs EXCEPT ![t].added = TRUE,
                          ![t].stored = Len(heap'[data_store])]
    /\ out' = NoOut
    /\ UNCHANGED <<data_store, assigned, req, returned, live, clean,
                   afterDelete, reported>>

(* lines 106-119: total_items is len(data_store), the global read again *)
create_data_respond(t) ==
    /\ pc[t] = "cd_respond"
    /\ Return(t, [Ok(201) EXCEPT !.item = loc[t].new_item,
                                 !.count = len(heap[data_store])], 0)
    /\ obs' = [obs EXCEPT ![t] = NoObs]
    /\ returned' = Append(returned, loc[t].new_item.id)
    /\ live' = IF obs[t].sawDel THEN live
               ELSE Append(live, [id |-> loc[t].new_item.id,
                                  data |-> req[t].body.val])
    /\ clean' = (clean /\ obs[t].alone)
    /\ UNCHANGED <<heap, data_store, assigned, afterDelete, reported>>

(* ------------------------- GET /api/data/<item_id> -------------------- *)
(* line 135: the generator is created over the list data_store names now *)
get_data_by_id(t) ==
    \E i \in ItemIds :
        BeginRead(t, ByIdReq(i), "gi_scan", [NoLoc EXCEPT !.ref = data_store])

(* line 135: one turn of the generator, the item does not match *)
get_data_by_id_next(t) ==
    /\ pc[t] = "gi_scan"
    /\ loc[t].idx < Len(heap[loc[t].ref])
    /\ ~Matches(heap[loc[t].ref][loc[t].idx + 1], req[t].item_id)
    /\ Step(t, "gi_scan", [loc[t] EXCEPT !.idx = NextIndex(@)])
    /\ heap' = [heap EXCEPT ![loc[t].ref] = Iterated(@)]

(* lines 135 and 143-147: the item matches (a dict of four keys is true) *)
get_data_by_id_found(t) ==
    /\ pc[t] = "gi_scan"
    /\ loc[t].idx < Len(heap[loc[t].ref])
    /\ Matches(heap[loc[t].ref][loc[t].idx + 1], req[t].item_id)
    /\ Return(t, [Ok(200) EXCEPT !.item = heap[loc[t].ref][loc[t].idx + 1],
                                 !.timestamp = TRUE], 0)
    /\ obs' = [obs EXCEPT ![t] = NoObs]
    /\ heap' = Collect(heap, data_store, loc')
    /\ UNCHANGED <<data_store, assigned, returned, live, clean, afterDelete,
                   reported>>

(* lines 135-141: the list is exhausted, next() gives None *)
get_data_by_id_missing(t) ==
    /\ pc[t] = "gi_scan"
    /\ loc[t].idx >= Len(heap[loc[t].ref])
    /\ Return(t, Err(404, "Item not found"), 0)
    /\ obs' = [obs EXCEPT ![t] = NoObs]
    /\ heap' = Collect(heap, data_store, loc')
    /\ UNCHANGED <<data_store, assigned, returned, live, clean, afterDelete,
                   reported>>

(* --------------------------- DELETE /api/data ------------------------- *)
(* line 174: items_count = len(data_store) *)
clear_data(t) ==
    /\ data_store + Cardinality({u \in Threads : pc[u] = "cl_assign"}) < MaxDeletes
    /\ BeginWrite(t, Req("clear_data"), "cl_assign",
           [NoLoc EXCEPT !.n = len(heap[data_store])])
    /\ assigned' = assigned

(* lines 175-183: the global is bound to a new list; the answer reports    *)
(* items_count.  The requests in flight have seen a DELETE.                *)
clear_data_assign(t) ==
    /\ pc[t] = "cl_assign"
    /\ data_store' = data_store + 1
    /\ Return(t, [Ok(200) EXCEPT !.count = loc[t].n, !.timestamp = TRUE],
              Len(heap[data_store]))
    /\ heap' = Collect([heap EXCEPT ![data_store + 1] = FreshList(heap[data_store])],
                       data_store + 1, loc')
    /\ obs' = [u \in Threads |->
                 IF u = t THEN NoObs
                 ELSE IF InFlight(u) THEN [obs[u] EXCEPT !.sawDel = TRUE]
                 ELSE obs[u]]
    /\ live' = <<>>
    /\ clean' = obs[t].alone
    /\ afterDelete' = obs[t].alone
    /\ reported' = reported + loc[t].n
    /\ UNCHANGED <<assigned, returned>>

(* ---------------------------------------------------------------------- *)
Next ==
    \E t \in Threads :
        \/ health_check(t)
        \/ root(t)
        \/ not_found(t)
        \/ get_status(t)
        \/ get_data(t)
        \/ get_data_count(t)
        \/ get_data_jsonify(t)
        \/ create_data_not_json(t)
        \/ create_data_raises(t)
        \/ create_data_empty(t)
        \/ create_data(t)
        \/ create_data_append(t)
        \/ create_data_respond(t)
        \/ get_data_by_id(t)
        \/ get_data_by_id_next(t)
        \/ get_data_by_id_found(t)
        \/ get_data_by_id_missing(t)
        \/ clear_data(t)
        \/ clear_data_assign(t)

Spec == Init /\ [][Next]_vars

(* ------------------------- unexpected failures ------------------------ *)
(* lines 79-127: a statement of the try block raises after the body has    *)
(* passed (MemoryError in jsonify, an exception out of a logging filter);  *)
(* `except Exception` answers 500 and undoes nothing.                      *)
create_data_fails(t) ==
    /\ pc[t] \in {"cd_append", "cd_respond"}
    /\ Return(t, Err(500, "Internal server error"), 0)
    /\ obs' = [obs EXCEPT ![t] = NoObs]
    /\ heap' = Collect(heap, data_store, loc')
    /\ UNCHANGED <<data_store, assigned, returned, live, clean, afterDelete,
                   reported>>

(* lines 195-201: another handler raises; Flask calls the 500 handler      *)
internal_error(t) ==
    /\ pc[t] \in {"gd_count", "gd_jsonify", "gi_scan", "cl_assign"}
    /\ Return(t, Err(500, "Internal server error"), 0)
    /\ obs' = [obs EXCEPT ![t] = NoObs]
    /\ heap' = Collect(heap, data_store, loc')
    /\ UNCHANGED <<data_store, assigned, returned, live, clean, afterDelete,
                   reported>>

(* The handlers that take more than one step: a request that one of the   *)
(* other handlers serves is answered in the step in which it arrives and   *)
(* leaves the store, the positions and the locals of all threads alone.    *)
StoreNext ==
    \E t \in Threads :
        \/ get_data(t)
        \/ get_data_count(t)
        \/ get_data_jsonify(t)
        \/ create_data(t)
        \/ create_data_append(t)
        \/ create_data_respond(t)
        \/ get_data_by_id(t)
        \/ get_data_by_id_next(t)
        \/ get_data_by_id_found(t)
        \/ get_data_by_id_missing(t)
        \/ clear_data(t)
        \/ clear_data_assign(t)

FaultNext ==
    \/ StoreNext
    \/ \E t \in Threads : create_data_fails(t)
    \/ \E t \in Threads : internal_error(t)

(* The requests that reach the store, when statements may fail             *)
(* unexpectedly.                                                           *)
FaultSpec == Init /\ [][FaultNext]_vars

(* ----------------------------- scheduling ----------------------------- *)
(* The steps of a handler that is running.  The interpreter hands the GIL  *)
(* to every runnable thread again and again, so a handler that can go on   *)
(* does go on.                                                             *)
Continue(t) ==
    \/ get_data_count(t)
    \/ get_data_jsonify(t)
    \/ create_data_append(t)
    \/ create_data_respond(t)
    \/ get_data_by_id_next(t)
    \/ get_data_by_id_found(t)
    \/ get_data_by_id_missing(t)
    \/ clear_data_assign(t)

LiveSpec == Init /\ [][StoreNext]_vars /\ \A t \in Threads : WF_vars(Continue(t))


(* ====================================================================== *)
(*                              properties                                *)
(* ====================================================================== *)
IsAnswer(kind) == out.thread # 0 /\ out.req.kind = kind

(* No DELETE has arrived so far: the global still names the first list and *)
(* no thread is inside clear_data.                                         *)
NoDeleteSoFar == data_store = 0 /\ \A t \in Threads : pc[t] # "cl_assign"

PostInFlight == \E t \in Threads : pc[t] \in {"cd_append", "cd_respond"}

(* A valid POST in the words of the handler table: Content-Type            *)
(* application/json and a body that is a non-empty JSON object.            *)
ValidPost(r) ==
    /\ r.kind = "create_data"
    /\ r.is_json
    /\ r.body.wf = "json"
    /\ r.body.val.t = "obj"
    /\ Len(r.body.val.v) > 0

(* A body with no bytes, or one that decodes to an empty string, array or  *)
(* object.                                                                 *)
EmptyBody(b) ==
    \/ b.wf = "absent"
    \/ b.wf = "json" /\ b.val.t \in {"str", "arr", "obj"} /\ Len(b.val.v) = 0

(* C1: as long as no DELETE has arrived, every valid POST answers 201, the *)
(* ids of the 201 responses are pairwise distinct, and once no POST is in  *)
(* flight the store holds exactly the returned ids, each once.             *)
C1_ConcurrentPosts ==
    NoDeleteSoFar =>
        /\ (IsAnswer("create_data") /\ ValidPost(out.req) => out.resp.status = 201)
        /\ NoDup(returned)
        /\ ~PostInFlight =>
            /\ len(heap[data_store]) = Len(returned)
            /\ Range(Ids(heap[data_store])) = Range(returned)
            /\ NoDup(Ids(heap[data_store]))

(* C1 witness: two POSTs that overlapped have both answered 201.           *)
C1_Witness ==
    /\ NoDeleteSoFar
    /\ ~PostInFlight
    /\ IsAnswer("create_data")
    /\ out.resp.status = 201
    /\ ~out.obs.alone
    /\ Len(returned) >= 2
    /\ Len(heap[data_store]) >= 2

(* A thread between its first and its last access to the store.            *)
InStore(t) ==
    pc[t] \in {"gd_count", "gd_jsonify", "cd_append", "cd_respond", "gi_scan",
               "cl_assign"}

(* C2: at most one handler is between its first and its last access to    *)
(* the shared store.                                                       *)
C2_MutualExclusion == Cardinality({t \in Threads : InStore(t)}) <= 1

(* C3: a GET /api/data/{id} that arrives after the POST that returned id   *)
(* answered 201, with no DELETE rebinding the store from the arrival of    *)
(* that POST to the answer of the GET, answers 200 with that id and the    *)
(* payload that was posted.                                                *)
C3_RoundTrip ==
    (/\ IsAnswer("get_data_by_id")
     /\ out.obs.wasLive
     /\ \E r \in Range(live) : r.id = out.req.item_id)
    => /\ out.resp.status = 200
       /\ out.resp.item.id = out.req.item_id
       /\ \A r \in Range(live) :
            r.id = out.req.item_id => out.resp.item.data = r.data

(* C3 witness: such a GET has answered, for the second record of the store. *)
C3_Witness ==
    /\ IsAnswer("get_data_by_id")
    /\ out.obs.wasLive
    /\ Len(live) >= 2
    /\ live[2].id = out.req.item_id
    /\ out.resp.status = 200

(* C4: when the POSTs since the store was last empty ran one after the     *)
(* other, N of them answered 201 and no POST or DELETE overlaps the read,  *)
(* GET /api/data answers the N records in the order posted with count N,   *)
(* and GET /api/status answers total_items N.                              *)
C4_CountAfterPosts ==
    (clean /\ out.obs.alone) =>
        /\ IsAnswer("get_data") =>
            /\ out.resp.status = 200
            /\ out.resp.count = Len(live)
            /\ Len(out.resp.data) = Len(live)
            /\ \A i \in 1..Len(live) :
                /\ out.resp.data[i].id = live[i].id
                /\ out.resp.data[i].data = live[i].data
        /\ IsAnswer("get_status") =>
            /\ out.resp.status = 200
            /\ out.resp.count = Len(live)

(* C4 witness: GET /api/data has answered two records after two POSTs.     *)
C4_Witness ==
    /\ clean
    /\ out.obs.alone
    /\ IsAnswer("get_data")
    /\ out.resp.count >= 2
    /\ Len(live) >= 2

(* C5: a GET /api/data that is the next request to arrive after a DELETE   *)
(* that ran alone, and that no POST or DELETE overlaps, answers count 0    *)
(* and an empty list.                                                      *)
C5_DeleteThenGet ==
    (IsAnswer("get_data") /\ out.obs.follows /\ out.obs.alone)
    => out.resp.count = 0 /\ out.resp.data = <<>>

(* C5 witness: such a GET has answered after a DELETE that removed a record. *)
C5_Witness ==
    /\ IsAnswer("get_data")
    /\ out.obs.follows
    /\ out.obs.alone
    /\ reported >= 1
    /\ out.resp.count = 0

(* C6: a step that answers a POST whose Content-Type is not                *)
(* application/json, or whose body is empty, answers 400 and leaves the    *)
(* records of the store as they were.                                      *)
C6_RejectedPostLeavesStore ==
    [][(/\ out'.thread # 0
        /\ out'.req.kind = "create_data"
        /\ (~out'.req.is_json \/ EmptyBody(out'.req.body)))
       => /\ out'.resp.status = 400
          /\ heap'[data_store'] = heap[data_store]]_vars

(* C7 as stated: a GET /api/data/{id} for an id that no 201 response has   *)
(* returned answers 404.                                                   *)
C7_NeverReturnedIs404 ==
    (IsAnswer("get_data_by_id") /\ out.req.item_id \notin Range(returned))
    => out.resp.status = 404

(* C7 amended: a GET /api/data/{id} for an id that no POST has generated   *)
(* answers 404.                                                            *)
C7_NeverAssignedIs404 ==
    (IsAnswer("get_data_by_id") /\ out.req.item_id \notin Range(assigned))
    => out.resp.status = 404

(* C7 witness: the GET has gone through a non-empty store and answered 404. *)
C7_Witness ==
    /\ IsAnswer("get_data_by_id")
    /\ out.req.item_id \notin Range(assigned)
    /\ out.resp.status = 404
    /\ Len(heap[data_store]) >= 1

(* C8: a POST with Content-Type application/json whose body decodes to a   *)
(* JSON value answers 201, unless the value is absent (null) or empty, and *)
(* then it answers 400.                                                    *)
C8_AnyJsonValueAccepted ==
    (IsAnswer("create_data") /\ out.req.is_json /\ out.req.body.wf = "json")
    => \/ out.resp.status = 201
       \/ /\ out.resp.status = 400
          /\ (out.req.body.val = JNull \/ EmptyBody(out.req.body))

(* C9: no two records of the store have the same id, and no id is          *)
(* generated twice, also after a DELETE has emptied the store.             *)
C9_IdsUnique ==
    /\ NoDup(Ids(heap[data_store]))
    /\ NoDup(assigned)

(* C9 witness: after a DELETE the store holds a record with a new id.      *)
C9_Witness ==
    /\ data_store >= 1
    /\ Len(assigned) >= 2
    /\ Len(heap[data_store]) >= 1

(* C10: the count a DELETE reports is the number of records of the list it *)
(* discarded, and once no POST or DELETE is in flight every record of a    *)
(* 201 response is in the store or was counted by a DELETE.                *)
C10_DeleteReportsRemoved ==
    /\ IsAnswer("clear_data") => out.resp.count = out.removed
    /\ (\A t \in Threads : ~Mutator(t)) =>
            Len(returned) = Len(heap[data_store]) + reported


(* The thread that takes the step, and the route it is serving.            *)
Acts(t) == pc'[t] # pc[t] \/ loc'[t] # loc[t] \/ out'.thread = t
ActingKind(t) == IF out'.thread = t THEN out'.req.kind ELSE req'[t].kind

ReadOnlyKinds ==
    {"root", "health_check", "get_data", "get_data_by_id", "get_status",
     "not_found"}

(* C11: a step of GET /, GET /health, GET /api/data, GET /api/data/{id},   *)
(* GET /api/status or of an unmatched path leaves the global bound to the  *)
(* same list and the records of that list as they were.                    *)
C11_ReadOnlyRoutes ==
    [][\A t \in Threads :
         (Acts(t) /\ ActingKind(t) \in ReadOnlyKinds)
         => /\ data_store' = data_store
            /\ heap'[data_store'] = heap[data_store]]_vars

(* C11 witness: GET /api/data/{id} has gone past a record of a non-empty   *)
(* store and answered.                                                     *)
C11_Witness ==
    /\ IsAnswer("get_data_by_id")
    /\ out.resp.status = 200
    /\ Len(heap[data_store]) >= 2
    /\ out.resp.item = heap[data_store][2]


(* C12: every response, of every route and of every status, carries a      *)
(* timestamp field.                                                        *)
C12_EveryResponseHasTimestamp == out.thread # 0 => out.resp.timestamp

(* C13: GET /health answers whenever a worker is free, and its answer is   *)
(* status 200 with status 'healthy', the same value in every state of the  *)
(* store.                                                                  *)
C13_HealthIndependentOfStore ==
    /\ \A t \in Threads : pc[t] = "idle" => ENABLED health_check(t)
    /\ IsAnswer("health_check") =>
        /\ out.resp.status = 200
        /\ out.resp.status_text = "healthy"
        /\ out.resp = [NoResp EXCEPT !.status = 200, !.status_text = "healthy",
                                     !.timestamp = TRUE]

(* C13 witness: GET /health has answered while the store holds a record    *)
(* and another request is changing the store.                              *)
C13_Witness ==
    /\ IsAnswer("health_check")
    /\ out.resp.status = 200
    /\ Len(heap[data_store]) >= 1
    /\ \E t \in Threads : Mutator(t)


(* C14: in every answer of GET /api/data, count is the number of records   *)
(* in data (both taken from the store at one moment).                      *)
C14_ConsistentSnapshot ==
    IsAnswer("get_data") => out.resp.count = Len(out.resp.data)

(* C15: in every step the list that data_store names stays as it is, gets  *)
(* one record that it did not hold added at its end, or is empty           *)
(* afterwards.                                                             *)
C15_StoreSteps ==
    [][LET before == heap[data_store]
           after == heap'[data_store']
       IN \/ after = before
          \/ /\ Len(after) = Len(before) + 1
             /\ SubSeq(after, 1, Len(before)) = before
             /\ after[Len(after)] \notin Range(before)
          \/ after = <<>>]_vars

(* C15 witness: a store that had a record was emptied and then extended    *)
(* again.                                                                  *)
C15_Witness ==
    /\ reported >= 1
    /\ data_store >= 1
    /\ Len(heap[data_store]) >= 1
    /\ Len(returned) > Len(heap[data_store])

(* C16: the total_items of a 201 answer is at least 1 and is the number of *)
(* records the store held right after the append of this POST.             *)
C16_TotalItemsCountsNewRecord ==
    (IsAnswer("create_data") /\ out.resp.status = 201)
    => /\ out.resp.count >= 1
       /\ out.resp.count = out.obs.stored


(* C17: a POST has appended a record if and only if it answers 201; one    *)
(* that answers 500 after an unexpected failure has appended none.         *)
C17_RecordIffCreated ==
    IsAnswer("create_data") => (out.obs.added <=> out.resp.status = 201)

(* C18: under fair scheduling of the running handlers, every request that  *)
(* a worker has taken is answered.                                         *)
C18_EveryRequestAnswered ==
    \A t \in Threads : InFlight(t) ~> ~InFlight(t)

(* C18 witness: a DELETE has answered while a POST that has appended is    *)
(* still running.                                                          *)
C18_Witness ==
    /\ IsAnswer("clear_data")
    /\ \E u \in Threads : pc[u] = "cd_respond"

====
